---------------------------- MODULE Spec2Model ----------------------------
(***************************************************************************)
(* A model of cfrt/roundtripper.go: the RoundTripper that answers the      *)
(* Cloudflare "I'm under attack" JavaScript challenge.                     *)
(*                                                                         *)
(* Text (page bodies, scripts, query values) is a tuple of one-character   *)
(* strings, so that the regular expressions of the source are modelled     *)
(* character by character.                                                 *)
(***************************************************************************)
EXTENDS Integers, Sequences, FiniteSets, TLC

(***************************************************************************)
(* Literal texts of the regular expressions (roundtripper.go:27-35).       *)
(***************************************************************************)
LitSetTimeout ==
    <<"s","e","t","T","i","m","e","o","u","t","(","f","u","n","c","t","i","o",
      "n","(",")","{">>
LitVarDecl ==
    <<"v","a","r"," ","s",",","t",",","o",",","p",",","b",",","r",",","e",",",
      "a",",","k",",","i",",","n",",","g",",","f">>
LitAValueEq ==
    <<"a",".","v","a","l","u","e"," ","=">>
LitAValueEqSp ==
    <<"a",".","v","a","l","u","e"," ","="," ">>
LitPlusTLength ==
    <<" ","+"," ","t",".","l","e","n","g","t","h">>
LitTLength ==
    <<"t",".","l","e","n","g","t","h">>
LitJschlField ==
    <<"n","a","m","e","=","\"","j","s","c","h","l","_","v","c","\""," ","v",
      "a","l","u","e","=","\"">>
LitPassField ==
    <<"n","a","m","e","=","\"","p","a","s","s","\""," ","v","a","l","u","e",
      "=","\"">>
LitSpEqSp ==
    <<" ","="," ">>

(***************************************************************************)
(* Character classes of Go's regexp syntax.                                *)
(***************************************************************************)
\* \s is [\t\n\f\r ]
IsSpace(c) ==
    c \in {" ", "\t", "\n", "\f", "\r"}

\* [a-z]
IsLower(c) ==
    c \in {"a","b","c","d","e","f","g","h","i","j","k","l","m",
           "n","o","p","q","r","s","t","u","v","w","x","y","z"}

\* \w is [0-9A-Za-z_]
IsWord(c) ==
    \/ IsLower(c)
    \/ c \in {"A","B","C","D","E","F","G","H","I","J","K","L","M",
              "N","O","P","Q","R","S","T","U","V","W","X","Y","Z"}
    \/ c \in {"0","1","2","3","4","5","6","7","8","9","_"}

\* The literal lit occurs in s at index i.
At(s, i, lit) ==
    /\ i >= 1
    /\ i + Len(lit) - 1 <= Len(s)
    /\ \A k \in 1..Len(lit) : s[i + k - 1] = lit[k]

\* s[a..b], empty when b < a.
Slice(s, a, b) ==
    IF b < a THEN <<>> ELSE SubSeq(s, a, b)

\* F of the value of v.  The value is computed once and F gets it as a
\* value, however often F uses it.
With(v, F(_)) ==
    CHOOSE y \in {F(x) : x \in {v}} : TRUE

\* The least j in i..n for which P(j) holds, n+1 when there is none.
LeastFrom(i, n, P(_)) ==
    IF i > n THEN n + 1
    ELSE CHOOSE j \in i..(n + 1) :
             /\ (j = n + 1 \/ P(j))
             /\ \A k \in i..(j - 1) : ~P(k)

\* The greatest j in lo..hi for which P(j) holds, 0 when there is none.
GreatestIn(lo, hi, P(_)) ==
    IF \A j \in lo..hi : ~P(j) THEN 0
    ELSE CHOOSE j \in lo..hi : P(j) /\ \A k \in (j + 1)..hi : ~P(k)

\* The least j >= i with s[j] a newline, Len(s)+1 when there is none: the
\* place where a run of "." (any character but \n) must stop.
NextNL(s, i) ==
    LeastFrom(i, Len(s), LAMBDA j : s[j] = "\n")

\* The least j >= i with s[j] not white space, Len(s)+1 when there is none.
SkipSpace(s, i) ==
    LeastFrom(i, Len(s), LAMBDA j : ~IsSpace(s[j]))

\* The least j >= i with s[j] not a word character.
SkipWord(s, i) ==
    LeastFrom(i, Len(s), LAMBDA j : ~IsWord(s[j]))

\* The least j >= i at which lit occurs in s, 0 when there is none.
IndexFrom(s, i, lit) ==
    With(LeastFrom(i, Len(s), LAMBDA k : At(s, k, lit)),
         LAMBDA j : IF j > Len(s) THEN 0 ELSE j)

NoMatch == [ok |-> FALSE, from |-> 0, to |-> 0, g1 |-> 0, g2 |-> 0]

(***************************************************************************)
(* jsRE (roundtripper.go:29-32):                                           *)
(*   setTimeout\(function\(\){\s+(var s,t,o,p,b,r,e,a,k,i,n,g,f.+?\r?\n    *)
(*   [\s\S]+?a\.value =.+?)\r?\n                                           *)
(* The lazy quantifiers give way in order: the declaration line ends at    *)
(* the first newline, the block at the first "a.value =" whose line has    *)
(* text after it, and the group at the end of that line, without its \r    *)
(* when something precedes the \r.                                         *)
(***************************************************************************)
\* The first "a.value =" at or after m that is followed by at least one
\* character other than \n and then a newline; 0 when there is none.
RECURSIVE JsREAssign(_, _)
JsREAssign(s, m) ==
    With(IndexFrom(s, m, LitAValueEq), LAMBDA a :
        IF a = 0 THEN 0
        ELSE With(NextNL(s, a + Len(LitAValueEq)), LAMBDA n :
                IF n <= Len(s) /\ n > a + Len(LitAValueEq) THEN a
                ELSE JsREAssign(s, a + 1)))

\* A match of jsRE that starts at i: g1..g2 is the captured group.
JsREAt(s, i) ==
    IF ~At(s, i, LitSetTimeout) THEN NoMatch
    ELSE
    With(SkipSpace(s, i + Len(LitSetTimeout)), LAMBDA v :
      IF ~(v > i + Len(LitSetTimeout) /\ At(s, v, LitVarDecl)) THEN NoMatch
      ELSE
      With(NextNL(s, v + Len(LitVarDecl)), LAMBDA n1 :
        IF ~(n1 <= Len(s) /\ n1 > v + Len(LitVarDecl)) THEN NoMatch
        ELSE
        With(JsREAssign(s, n1 + 2), LAMBDA a :
          IF a = 0 THEN NoMatch
          ELSE
          With(NextNL(s, a + Len(LitAValueEq)), LAMBDA n2 :
            LET c == a + Len(LitAValueEq)
                e == IF s[n2 - 1] = "\r" /\ n2 - 2 >= c
                     THEN n2 - 2 ELSE n2 - 1
            IN  [ok |-> TRUE, from |-> i, to |-> n2, g1 |-> v, g2 |-> e]))))

\* The leftmost match of jsRE at or after i.
RECURSIVE JsREFind(_, _)
JsREFind(s, i) ==
    With(IndexFrom(s, i, LitSetTimeout), LAMBDA h :
        IF h = 0 THEN NoMatch
        ELSE With(JsREAt(s, h), LAMBDA m :
                IF m.ok THEN m ELSE JsREFind(s, h + 1)))

(***************************************************************************)
(* jsReplace1RE (roundtripper.go:33):  a\.value = (.+ \+ t\.length).+      *)
(* replaced by "$1".  The first .+ is greedy: the group ends at the last   *)
(* " + t.length" of the line that still has a character after it.          *)
(***************************************************************************)
\* The greatest g in lo..hi at which " + t.length" occurs, 0 when none.
LastPlusTLength(s, lo, hi) ==
    GreatestIn(lo, hi, LAMBDA g : At(s, g, LitPlusTLength))

JsReplace1At(s, i) ==
    IF ~At(s, i, LitAValueEqSp) THEN NoMatch
    ELSE
    With(NextNL(s, i + Len(LitAValueEqSp)) - 1, LAMBDA le :
      With(LastPlusTLength(s, i + Len(LitAValueEqSp) + 1,
                           le - Len(LitPlusTLength)), LAMBDA g :
        IF g = 0 THEN NoMatch
        ELSE [ok |-> TRUE, from |-> i, to |-> le,
              g1 |-> i + Len(LitAValueEqSp),
              g2 |-> g + Len(LitPlusTLength) - 1]))

\* jsReplace1RE.ReplaceAllString(s, "$1"), from index i on: the text up to
\* the leftmost match, the match's group, and the rest treated alike.
RECURSIVE JsReplace1(_, _)
JsReplace1(s, i) ==
    With(LeastFrom(i, Len(s), LAMBDA k : JsReplace1At(s, k).ok), LAMBDA j :
        IF j > Len(s) THEN Slice(s, i, Len(s))
        ELSE With(JsReplace1At(s, j), LAMBDA m :
                Slice(s, i, j - 1) \o Slice(s, m.g1, m.g2)
                    \o JsReplace1(s, m.to + 1)))

(***************************************************************************)
(* jsReplace2RE (roundtripper.go:34):  \s{3,}[a-z](?: = |\.).+             *)
(* replaced by "": three or more white-space characters (newlines          *)
(* included), a lower-case letter, " = " or ".", and the rest of the line. *)
(***************************************************************************)
JsReplace2At(s, i) ==
    IF ~(i <= Len(s) /\ IsSpace(s[i])) THEN NoMatch
    ELSE
    With(SkipSpace(s, i), LAMBDA w :
      IF ~(w - i >= 3 /\ w <= Len(s) /\ IsLower(s[w])) THEN NoMatch
      ELSE
      LET c == IF At(s, w + 1, LitSpEqSp) THEN w + 4
               ELSE IF At(s, w + 1, <<".">>) THEN w + 2
               ELSE 0
      IN  IF c = 0 \/ c > Len(s) THEN NoMatch
          ELSE IF s[c] = "\n" THEN NoMatch
          ELSE [ok |-> TRUE, from |-> i, to |-> NextNL(s, c) - 1,
                g1 |-> 0, g2 |-> 0])

\* jsReplace2RE.ReplaceAllString(s, ""), from index i on.
RECURSIVE JsReplace2(_, _)
JsReplace2(s, i) ==
    With(LeastFrom(i, Len(s), LAMBDA k : JsReplace2At(s, k).ok), LAMBDA j :
        IF j > Len(s) THEN Slice(s, i, Len(s))
        ELSE With(JsReplace2At(s, j), LAMBDA m :
                Slice(s, i, j - 1) \o JsReplace2(s, m.to + 1)))

(***************************************************************************)
(* strconv.Itoa for a natural number, and strings.Replace(s, old, new, -1).*)
(***************************************************************************)
Digit(d) ==
    <<"0","1","2","3","4","5","6","7","8","9">>[d + 1]

RECURSIVE Itoa(_)
Itoa(n) ==
    IF n < 10 THEN <<Digit(n)>>
    ELSE Itoa(n \div 10) \o <<Digit(n % 10)>>

\* Every non-overlapping occurrence of old, left to right, becomes new.
RECURSIVE ReplaceAll(_, _, _, _)
ReplaceAll(s, i, old, new) ==
    With(IndexFrom(s, i, old), LAMBDA k :
        IF k = 0 THEN Slice(s, i, Len(s))
        ELSE Slice(s, i, k - 1) \o new
                 \o ReplaceAll(s, k + Len(old), old, new))

\* Only the first occurrence of old becomes new (strings.Replace with n = 1).
ReplaceFirst(s, i, old, new) ==
    With(IndexFrom(s, i, old), LAMBDA k :
        IF k = 0 THEN Slice(s, i, Len(s))
        ELSE Slice(s, i, k - 1) \o new \o Slice(s, k + Len(old), Len(s)))

\* strings.Replace(js, "t.length", strconv.Itoa(len(domain)), -1)
\* (roundtripper.go:143).
ReplaceTLength(s, i, old, new) ==
    ReplaceAll(s, i, old, new)

(***************************************************************************)
(* jsReplace3RE (roundtripper.go:35):  [\n\\']  replaced by "".            *)
(***************************************************************************)
IsStripped(c) ==
    c \in {"\n", "\\", "'"}

JsReplace3(s, i) ==
    SelectSeq(Slice(s, i, Len(s)), LAMBDA c : ~IsStripped(c))

(***************************************************************************)
(* extractJS (roundtripper.go:134-148).  PreStrip is the text after the    *)
(* substitution of line 143, before the stripping of line 146.             *)
(***************************************************************************)
ErrNotFound == "Unable to identify Cloudflare IUAM Javascript on the page"

PreStrip(body, domain) ==
    With(body, LAMBDA b :
      With(JsREFind(b, 1), LAMBDA m :
        With(Slice(b, m.g1, m.g2), LAMBDA js0 :
          With(JsReplace1(js0, 1), LAMBDA js1 :
            With(JsReplace2(js1, 1), LAMBDA js2 :
              With(Itoa(Len(domain)), LAMBDA n :
                ReplaceTLength(js2, 1, LitTLength, n)))))))

extractJS(body, domain) ==
    With(body, LAMBDA b :
      IF ~JsREFind(b, 1).ok
      THEN [js |-> <<>>, err |-> ErrNotFound]
      ELSE With(PreStrip(b, domain), LAMBDA js :
              [js |-> JsReplace3(js, 1), err |-> ""]))


(***************************************************************************)
(* jschlRE and passRE (roundtripper.go:27-28), FindStringSubmatch: ok says *)
(* whether len(m) > 0, and g1..g2 is m[1].                                 *)
(***************************************************************************)
\* name="jschl_vc" value="(\w+)"
JschlREAt(s, i) ==
    IF ~At(s, i, LitJschlField) THEN NoMatch
    ELSE
    With(SkipWord(s, i + Len(LitJschlField)), LAMBDA w :
      IF w > i + Len(LitJschlField) /\ At(s, w, <<"\"">>)
      THEN [ok |-> TRUE, from |-> i, to |-> w,
            g1 |-> i + Len(LitJschlField), g2 |-> w - 1]
      ELSE NoMatch)

\* name="pass" value="(.+?)": the lazy group is one character at least and
\* stops before the first quote that follows on the same line.
PassREAt(s, i) ==
    IF ~At(s, i, LitPassField) THEN NoMatch
    ELSE
    With(IndexFrom(s, i + Len(LitPassField) + 1, <<"\"">>), LAMBDA q :
      IF q # 0 /\ NextNL(s, i + Len(LitPassField)) > q
      THEN [ok |-> TRUE, from |-> i, to |-> q,
            g1 |-> i + Len(LitPassField), g2 |-> q - 1]
      ELSE NoMatch)

\* The leftmost match of a pattern, given its match-at-an-index operator.
FindFirst(s, MatchAt(_, _)) ==
    With(s, LAMBDA t :
      With(LeastFrom(1, Len(t), LAMBDA k : MatchAt(t, k).ok), LAMBDA j :
        IF j > Len(t) THEN NoMatch ELSE MatchAt(t, j)))

jschlRE(s) == FindFirst(s, JschlREAt)

passRE(s) == FindFirst(s, PassREAt)


(***************************************************************************)
(* Bounds of the model.                                                    *)
(***************************************************************************)
\* RoundTrip calls started in one behaviour.
MaxCalls == 2

\* Cookie pairs one request's Cookie header may hold (a request object that
\* the caller passes again keeps the pairs of its earlier calls).
MaxCookieHdr == 3

\* Free chunks of text in a page body given to extractJS.
MaxChunks == 3

(***************************************************************************)
(* Requests, responses and cookies.  A path is its sequence of segments:   *)
(* <<>> is "/", <<"cdn-cgi","l","chk_jschl">> is "/cdn-cgi/l/chk_jschl".   *)
(***************************************************************************)
\* The goroutines that call RoundTrip on the one RoundTripper.
Procs == {"p1", "p2"}

NoProc == "none"

\* roundtripper.go:23
UserAgent ==
    "Mozilla/5.0 (Windows NT 10.0; WOW64) AppleWebKit/537.36 (KHTML, like Gecko) Chrome/65.0.3325.181 Safari/537.36"

\* url.Parse("/cdn-cgi/l/chk_jschl") (roundtripper.go:105)
ChkPath == <<"cdn-cgi", "l", "chk_jschl">>

MkURL(host, path, query) ==
    [scheme |-> "http", host |-> host, path |-> path, query |-> query]

NoURL == MkURL("", <<>>, <<>>)

MkRequest(url, ua, cookies, referer) ==
    [method |-> "GET", url |-> url, ua |-> ua, cookies |-> cookies,
     referer |-> referer]

NoReq == MkRequest(NoURL, "", <<>>, <<>>)

\* The requests a caller builds: one without a User-Agent for the root of one
\* host, one with a User-Agent and a Referer of its own for a path below
\* /cdn-cgi/l of another host.
NewRequests ==
    { MkRequest(MkURL("example.com", <<>>, <<>>), "", <<>>, <<>>),
      MkRequest(MkURL("cf.io", <<"cdn-cgi", "l", "x">>, <<>>), "curl/8",
                <<>>, <<MkURL("cf.io", <<"from">>, <<>>)>>) }

\* A Set-Cookie header as resp.Cookies() parses it: path is <<>> when the
\* header has no Path attribute and <<P>> when it has Path=P; maxAge is 0
\* when it has no Max-Age attribute and below 0 for "delete now".
MkCookie(name, value, path, maxAge) ==
    [name |-> name, value |-> value, path |-> path, maxAge |-> maxAge]

RootPathAttr == << <<>> >>

NoPathAttr == <<>>

SrvCloudflareNginx ==
    <<"c","l","o","u","d","f","l","a","r","e","-","n","g","i","n","x">>
SrvCloudflare ==
    <<"c","l","o","u","d","f","l","a","r","e">>
SrvBehindCloudflare ==
    <<"n","g","i","n","x"," ","c","l","o","u","d","f","l","a","r","e">>
SrvNginx ==
    <<"n","g","i","n","x">>
LitCloudflare ==
    <<"c","l","o","u","d","f","l","a","r","e">>

TextScript ==
    <<"s","e","t","T","i","m","e","o","u","t","(","f","u","n","c","t","i","o",
      "n","(",")","{","\n"," "," ","v","a","r"," ","s",",","t",",","o",",",
      "p",",","b",",","r",",","e",",","a",",","k",",","i",",","n",",","g",",",
      "f",","," ","x","=","+","1",";","\n"," "," ","a",".","v","a","l","u",
      "e"," ","="," ","x"," ","+"," ","t",".","l","e","n","g","t","h",";"," ",
      "f",".","s","u","b","m","i","t","(",")",";","\n","}",","," ","4","0",
      "0","0",")",";","\n">>
TextFields ==
    <<"n","a","m","e","=","\"","j","s","c","h","l","_","v","c","\""," ","v",
      "a","l","u","e","=","\"","a","b","1","\"","\n","n","a","m","e","=","\"",
      "p","a","s","s","\""," ","v","a","l","u","e","=","\"","1","5","-","x",
      "/","y","\"","\n">>
TextPage ==
    <<"<","h","t","m","l",">","h","e","l","l","o","<","/","h","t","m","l",">",
      "\n">>

\* The page bodies the upstream serves, by name: an ordinary page, a
\* challenge page with both hidden fields, a challenge page with neither,
\* and a body whose read fails (ioutil.ReadAll returns an error).
BodyText(b) ==
    CASE b = "page"   -> TextPage
      [] b = "full"   -> TextPage \o TextScript \o TextFields
      [] b = "bare"   -> TextScript \o TextPage
      [] OTHER        -> <<>>

BodyReadable(b) == b # "broken"

\* The page bodies of the model (the names BodyText knows) and the hosts of
\* its requests.
Bodies == {"page", "full", "bare", "broken"}

Hosts == {"example.com", "cf.io"}

\* extractJS(string(b), resp.Request.URL.Host) of roundtripper.go:94 for
\* each body and host of the model.
ExtractedJS ==
    [b \in Bodies |-> [h \in Hosts |-> extractJS(BodyText(b), h)]]

MkResponse(status, server, body, cookies) ==
    [status |-> status, server |-> server, body |-> body, cookies |-> cookies]

NoResp == MkResponse(0, <<>>, "", <<>>)

\* What the upstream transport may answer to either round trip.
Responses ==
    { MkResponse(200, SrvNginx, "page", <<>>),
      MkResponse(200, SrvCloudflare, "page",
                 <<MkCookie("a", "1", RootPathAttr, 0)>>),
      MkResponse(503, SrvBehindCloudflare, "full", <<>>),
      MkResponse(503, SrvCloudflareNginx, "full", <<>>),
      MkResponse(503, SrvCloudflareNginx, "bare",
                 <<MkCookie("b", "1", RootPathAttr, 0)>>),
      MkResponse(503, SrvCloudflare, "page", <<>>),
      MkResponse(503, SrvCloudflare, "broken", <<>>),
      MkResponse(200, SrvCloudflare, "page",
                 <<MkCookie("a", "2", RootPathAttr, 0),
                   MkCookie("b", "1", NoPathAttr, 0)>>),
      MkResponse(200, SrvCloudflare, "page",
                 <<MkCookie("a", "1", RootPathAttr, -1)>>) }

ErrTransport == "transport error"

ErrRead == "body read error"

ErrTimeout == "The unsafe Javascript ran for too long"

ErrMalformed == "script error"

MkResult(r, err) == [resp |-> r, err |-> err]

NoResult == MkResult(NoResp, "")

(***************************************************************************)
(* The cookie jar (net/http/cookiejar, created at roundtripper.go:46): a   *)
(* sequence of entries in the order of their seqNum, keyed by host, path   *)
(* and name, each with its Creation time.                                  *)
(***************************************************************************)
\* cookiejar's defaultPath: the directory of the request path.
DefaultPath(path) ==
    IF Len(path) <= 1 THEN <<>> ELSE SubSeq(path, 1, Len(path) - 1)

\* cookiejar's pathMatch: the cookie path is a prefix of the request path.
PathMatch(reqPath, cookiePath) ==
    /\ Len(cookiePath) <= Len(reqPath)
    /\ SubSeq(reqPath, 1, Len(cookiePath)) = cookiePath

\* cookiejar's newEntry for a host-only cookie, created at the time t.
NewEntry(u, c, t) ==
    [host |-> u.host,
     path |-> IF c.path = <<>> THEN DefaultPath(u.path) ELSE c.path[1],
     name |-> c.name, value |-> c.value, creation |-> t]

SameId(e, f) ==
    e.host = f.host /\ e.path = f.path /\ e.name = f.name

\* The index in j of the entry with e's id, 0 when there is none.
EntryIndex(j, e) ==
    IF \E k \in 1..Len(j) : SameId(j[k], e)
    THEN CHOOSE k \in 1..Len(j) : SameId(j[k], e)
    ELSE 0

RemoveAt(j, k) ==
    Slice(j, 1, k - 1) \o Slice(j, k + 1, Len(j))

\* A jar that adds every cookie as a new entry and replaces none.
SetOneAppend(j, u, c, t) ==
    IF c.maxAge < 0 THEN j ELSE Append(j, NewEntry(u, c, t))

\* One turn of the loop of Jar.SetCookies, called at the time t: a cookie
\* with Max-Age < 0 removes the entry of its id, another one replaces it in
\* place (Creation and seqNum are kept) or is added last with Creation t.
SetOne(j, u, c, t) ==
    LET e == NewEntry(u, c, t)
        k == EntryIndex(j, e)
    IN  IF c.maxAge < 0
        THEN (IF k = 0 THEN j ELSE RemoveAt(j, k))
        ELSE IF k = 0 THEN Append(j, e)
        ELSE [j EXCEPT ![k] = [e EXCEPT !.creation = j[k].creation]]

\* A jar that sends a cookie to the very path it is stored for only.
ShouldSendSamePath(e, u) ==
    e.host = u.host /\ e.path = u.path

\* cookiejar's shouldSend for a host-only cookie: the host is the request's
\* and the path matches.
ShouldSend(e, u) ==
    e.host = u.host /\ PathMatch(u.path, e.path)

\* The latest Creation among the entries of m, 0 when m is empty.
Latest(m) ==
    IF m = <<>> THEN 0
    ELSE CHOOSE t \in {m[k].creation : k \in 1..Len(m)} :
             \A k \in 1..Len(m) : m[k].creation <= t

\* The entries of m created at t or later, the earliest Creation first and,
\* among equal Creations, in the order of their seqNum.
RECURSIVE ByCreation(_, _, _)
ByCreation(m, t, last) ==
    IF t > last THEN <<>>
    ELSE SelectSeq(m, LAMBDA e : e.creation = t) \o ByCreation(m, t + 1, last)

\* The entries of m with the longest path first and, among equal path
\* lengths, ByCreation: the order Jar.Cookies sorts them in.
RECURSIVE ByPathLen(_, _)
ByPathLen(m, n) ==
    IF n < 0 THEN <<>>
    ELSE With(SelectSeq(m, LAMBDA e : Len(e.path) = n),
              LAMBDA same : With(Latest(same),
                  LAMBDA last : ByCreation(same, 0, last)))
             \o ByPathLen(m, n - 1)

\* Jar.Cookies(u): name and value of the entries to send to u.
JarCookies(j, u) ==
    With(SelectSeq(j, LAMBDA e : ShouldSend(e, u)), LAMBDA sent :
        With(ByPathLen(sent, Len(u.path)), LAMBDA m :
            [k \in 1..Len(m) |-> <<m[k].name, m[k].value>>]))


(***************************************************************************)
(* State.                                                                  *)
(***************************************************************************)
VARIABLES
    pc,      \* where each caller's RoundTrip call stands
    req,     \* r: the caller's request object (it outlives the call)
    resp1,   \* the response of the first upstream round trip
    areq,    \* req: the answer request buildAnswerRequest returned
    resp,    \* the response of the second upstream round trip
    idx,     \* cookies of resp that Jar.SetCookies has stored so far
    ev,      \* evaluateJS: the caller's select loop, the worker, the timer
    result,  \* what RoundTrip returned
    nUp,     \* upstream round trips made by the call
    nPipe,   \* runs of buildAnswerRequest in the call
    jar,     \* rt.cookies: the entries of the cookie jar
    mu,      \* the jar's mutex: its holder, or NoProc
    stable,  \* the jar as the last completed SetCookies left it
    calls,   \* RoundTrip calls started so far
    clock,   \* the latest reading of time.Now() by a Jar.SetCookies
    ts,      \* per caller: the time.Now() of its Jar.SetCookies
    ex       \* a run of extractJS on its own: input, stage, output

vars ==
    <<pc, req, resp1, areq, resp, idx, ev, result, nUp, nPipe, jar, mu,
      stable, calls, clock, ts, ex>>

\* No evaluateJS in progress.  workers, ints and outs count what the call of
\* evaluateJS has done: go statements run (line 165), sends on interrupt
\* begun (line 170), outcomes received from ret (line 173).
EvIdle ==
    [caller |-> "-", worker |-> "-", timer |-> "-", kind |-> "-",
     num |-> 0, err |-> "", workers |-> 0, ints |-> 0, outs |-> 0]

\* evaluateJS up to the go statement (roundtripper.go:158-165): two
\* unbuffered channels, the timer armed, the worker started.
EvStart ==
    [caller |-> "select", worker |-> "start", timer |-> "armed",
     kind |-> "-", num |-> 0, err |-> "", workers |-> 1, ints |-> 0,
     outs |-> 0]

\* The outcome is received and evaluateJS has returned (roundtripper.go:
\* 173-179): the worker has ended and the deferred t.Stop() has run; what was
\* received stays in num and err.
EvReturned(e) ==
    [caller |-> "returned", worker |-> "done", timer |-> "stopped",
     kind |-> e.kind, num |-> e.num, err |-> e.err, workers |-> e.workers,
     ints |-> e.ints, outs |-> e.outs + 1]

ExOff == [phase |-> "off", body |-> <<>>, host |-> "", pre |-> <<>>,
          js |-> <<>>, err |-> ""]

\* The state after New (roundtripper.go:45-51): an empty jar, no call.
InitCalls ==
    /\ pc = [p \in Procs |-> "idle"]
    /\ req = [p \in Procs |-> NoReq]
    /\ resp1 = [p \in Procs |-> NoResp]
    /\ areq = [p \in Procs |-> NoReq]
    /\ resp = [p \in Procs |-> NoResp]
    /\ idx = [p \in Procs |-> 0]
    /\ ev = [p \in Procs |-> EvIdle]
    /\ result = [p \in Procs |-> NoResult]
    /\ nUp = [p \in Procs |-> 0]
    /\ nPipe = [p \in Procs |-> 0]
    /\ jar = <<>>
    /\ mu = NoProc
    /\ stable = <<>>
    /\ calls = 0
    /\ clock = 0
    /\ ts = [p \in Procs |-> 0]

Init ==
    /\ InitCalls
    /\ ex = ExOff

(***************************************************************************)
(* RoundTrip (roundtripper.go:54-85).                                      *)
(***************************************************************************)
\* A jar without a mutex: nobody ever waits.
JarUnlocked == TRUE

\* The jar's mutex is free: Jar.Cookies and Jar.SetCookies both take it.
JarFree == mu = NoProc

\* strings.HasPrefix
HasPrefix(s, prefix) == At(s, 1, prefix)

\* The test of line 68 without the Server header.
IsChallengeAnyServer(r) ==
    r.status = 503

\* roundtripper.go:68
IsChallenge(r) ==
    r.status = 503 /\ HasPrefix(r.server, LitCloudflare)

\* A RoundTrip that sets the default User-Agent on every request.
WithDefaultUserAgent(r) ==
    [r EXCEPT !.ua = UserAgent]

\* roundtripper.go:55-57
WithUserAgent(r) ==
    IF r.ua = "" THEN [r EXCEPT !.ua = UserAgent] ELSE r

\* r.AddCookie for each cookie of the jar (roundtripper.go:59-61): the pairs
\* are appended to the request's Cookie header.
WithCookies(r, cs) ==
    [r EXCEPT !.cookies = r.cookies \o cs]

\* The call finishes with the given result.
Finish(p, res) ==
    /\ pc' = [pc EXCEPT ![p] = "done"]
    /\ result' = [result EXCEPT ![p] = res]

\* Lines 55-61: the caller hands in a new request, or the request object of
\* its previous call; the User-Agent is defaulted and the jar's cookies for
\* the URL are added to the request.
BeginUpTo(p, n) ==
    /\ pc[p] = "idle"
    /\ calls < n
    /\ JarFree
    /\ \E r \in NewRequests \cup ({req[p]} \ {NoReq}) :
         LET r2 == WithCookies(WithUserAgent(r), JarCookies(jar, r.url))
         IN  /\ Len(r2.cookies) <= MaxCookieHdr
             /\ req' = [req EXCEPT ![p] = r2]
    /\ pc' = [pc EXCEPT ![p] = "send1"]
    /\ calls' = calls + 1
    /\ UNCHANGED <<resp1, areq, resp, idx, ev, result, nUp, nPipe, jar, mu,
                   stable, clock, ts,
                   ex>>

\* RoundTrip is called, in a run of at most MaxCalls calls.
Begin(p) == BeginUpTo(p, MaxCalls)

\* A RoundTrip that falls back to the challenge page when no script is
\* found in it.
AfterFirstFallback(r, host) ==
    IF ~IsChallenge(r) THEN "return"
    ELSE IF ~BodyReadable(r.body) THEN ErrRead
    ELSE IF ExtractedJS[r.body][host].err # "" THEN "return"
    ELSE "evaluate"

\* What follows the first response r (roundtripper.go:68-72 and 88-97): a
\* response that is no challenge is returned; a challenge page is read and
\* the script extracted, which may fail; otherwise the script is evaluated.
AfterFirst(r, host) ==
    IF ~IsChallenge(r) THEN "return"
    ELSE IF ~BodyReadable(r.body) THEN ErrRead
    ELSE IF ExtractedJS[r.body][host].err # ""
         THEN ExtractedJS[r.body][host].err
    ELSE "evaluate"

\* A RoundTrip that stores the cookies of every response it returns, those of
\* a response that is no challenge as well.
Round1Saving(p) ==
    /\ pc[p] = "send1"
    /\ nUp' = [nUp EXCEPT ![p] = nUp[p] + 1]
    /\ \E r \in Responses :
         /\ ~IsChallenge(r)
         /\ Len(r.cookies) > 0
         /\ resp1' = [resp1 EXCEPT ![p] = r]
         /\ resp' = [resp EXCEPT ![p] = r]
         /\ areq' = [areq EXCEPT ![p] = req[p]]
         /\ pc' = [pc EXCEPT ![p] = "save"]
    /\ UNCHANGED <<req, idx, ev, result, nPipe, jar, mu, stable, calls, clock, ts,
                   ex>>

\* Line 63-66 and on: the first upstream round trip and what it leads to.
Round1(p) ==
    /\ pc[p] = "send1"
    /\ nUp' = [nUp EXCEPT ![p] = nUp[p] + 1]
    /\ \/ /\ Finish(p, MkResult(NoResp, ErrTransport))
          /\ UNCHANGED <<resp1, ev, nPipe>>
       \/ \E r \in Responses :
            LET next == AfterFirst(r, req[p].url.host)
            IN  /\ resp1' = [resp1 EXCEPT ![p] = r]
                /\ nPipe' = [nPipe EXCEPT ![p] =
                                nPipe[p] + (IF next = "return" THEN 0 ELSE 1)]
                /\ IF next = "return"
                   THEN Finish(p, MkResult(r, "")) /\ UNCHANGED ev
                   ELSE IF next = "evaluate"
                   THEN /\ pc' = [pc EXCEPT ![p] = "eval"]
                        /\ ev' = [ev EXCEPT ![p] = EvStart]
                        /\ UNCHANGED result
                   ELSE Finish(p, MkResult(NoResp, next)) /\ UNCHANGED ev
    /\ UNCHANGED <<req, areq, resp, idx, jar, mu, stable, calls, clock, ts,
                   ex>>


(***************************************************************************)
(* evaluateJS and executeUnsafeJS (roundtripper.go:157-209).  The script   *)
(* engine is outside the repository: how a script runs (to a number, to an *)
(* error, without end) is an input, and the number of a script that ends   *)
(* with one is the value of its text.  The engine polls vm.Interrupt       *)
(* without blocking before each statement; a script that goes on to its    *)
(* next statement is at "poll" again.                                      *)
(***************************************************************************)
ScriptKinds == {"num", "bad", "loop"}

LitXInit == <<"x","=","+">>

LitXPlus == <<"x"," ","+"," ">>

IsDigit(c) == c \in {"0","1","2","3","4","5","6","7","8","9"}

DigitValue(c) == CHOOSE d \in 0..9 : Digit(d) = c

\* The natural number whose digits stand in s from i on, after acc.
RECURSIVE NatAt(_, _, _)
NatAt(s, i, acc) ==
    IF i <= Len(s) /\ IsDigit(s[i])
    THEN NatAt(s, i + 1, acc * 10 + DigitValue(s[i]))
    ELSE acc

\* vm.Run and ToFloat (lines 201-204) for the scripts of the model's pages,
\* "var ..., x=+A;  x + B": the value of the last statement, A + B.
ScriptNumber(js) ==
    NatAt(js, IndexFrom(js, 1, LitXInit) + Len(LitXInit), 0)
        + NatAt(js, IndexFrom(js, 1, LitXPlus) + Len(LitXPlus), 0)

\* The number of the script of each body for each host of the model.
ScriptValue ==
    [b \in Bodies |-> [h \in Hosts |-> ScriptNumber(ExtractedJS[b][h].js)]]

\* The worker sends the given outcome on ret (roundtripper.go:191, 205).
WorkerSends(e, num, err) ==
    [e EXCEPT !.worker = "send", !.num = num, !.err = err]

\* Lines 185-201: the engine is set up and vm.Run parses the script; a
\* script that does not parse ends the run before any statement.
WorkerStart(p) ==
    /\ pc[p] = "eval"
    /\ ev[p].worker = "start"
    /\ \/ \E k \in ScriptKinds :
            ev' = [ev EXCEPT ![p] = [@ EXCEPT !.worker = "poll", !.kind = k]]
       \/ ev' = [ev EXCEPT ![p] =
                    WorkerSends([@ EXCEPT !.kind = "bad"], 0, ErrMalformed)]
    /\ UNCHANGED <<pc, req, resp1, areq, resp, idx, result, nUp, nPipe, jar,
                   mu, stable, calls, clock, ts,
                   ex>>

\* An engine that receives the interrupt and goes on with the script.
WorkerPollGoesOn(p) ==
    /\ pc[p] = "eval"
    /\ ev[p].worker = "poll"
    /\ IF ev[p].caller = "sendInt"
       THEN ev' = [ev EXCEPT ![p] = [@ EXCEPT !.caller = "select",
                                              !.worker = "exec"]]
       ELSE ev' = [ev EXCEPT ![p] = [@ EXCEPT !.worker = "exec"]]
    /\ UNCHANGED <<pc, req, resp1, areq, resp, idx, result, nUp, nPipe, jar,
                   mu, stable, calls, clock, ts,
                   ex>>

\* The engine's poll before a statement: when the caller stands at the send
\* of line 170 the function is received and run, it panics with errHalt and
\* the deferred function of lines 188-199 reports the timeout.
WorkerPoll(p) ==
    /\ pc[p] = "eval"
    /\ ev[p].worker = "poll"
    /\ IF ev[p].caller = "sendInt"
       THEN ev' = [ev EXCEPT ![p] =
                      WorkerSends([@ EXCEPT !.caller = "select"], 0, ErrTimeout)]
       ELSE ev' = [ev EXCEPT ![p] = [@ EXCEPT !.worker = "exec"]]
    /\ UNCHANGED <<pc, req, resp1, areq, resp, idx, result, nUp, nPipe, jar,
                   mu, stable, calls, clock, ts,
                   ex>>

\* A statement runs: the script goes on, or ends with a number (lines
\* 202-208), or ends with an error of vm.Run or of result.ToFloat.
WorkerExec(p) ==
    /\ pc[p] = "eval"
    /\ ev[p].worker = "exec"
    /\ \/ ev' = [ev EXCEPT ![p] = [@ EXCEPT !.worker = "poll"]]
       \/ /\ ev[p].kind = "num"
          /\ ev' = [ev EXCEPT ![p] =
                       WorkerSends(@, ScriptValue[resp1[p].body][req[p].url.host], "")]
       \/ /\ ev[p].kind = "bad"
          /\ ev' = [ev EXCEPT ![p] = WorkerSends(@, 0, ErrMalformed)]
    /\ UNCHANGED <<pc, req, resp1, areq, resp, idx, result, nUp, nPipe, jar,
                   mu, stable, calls, clock, ts,
                   ex>>

\* The 5-second timer of line 162 fires: a value waits in t.C.
TimerFire(p) ==
    /\ pc[p] = "eval"
    /\ ev[p].timer = "armed"
    /\ ev' = [ev EXCEPT ![p] = [@ EXCEPT !.timer = "fired"]]
    /\ UNCHANGED <<pc, req, resp1, areq, resp, idx, result, nUp, nPipe, jar,
                   mu, stable, calls, clock, ts,
                   ex>>

\* A select whose timer case takes the value and sends no interrupt.
CallerTimerNoSend(p) ==
    /\ pc[p] = "eval"
    /\ ev[p].caller = "select"
    /\ ev[p].timer = "fired"
    /\ ev' = [ev EXCEPT ![p] = [@ EXCEPT !.timer = "read"]]
    /\ UNCHANGED <<pc, req, resp1, areq, resp, idx, result, nUp, nPipe, jar,
                   mu, stable, calls, clock, ts,
                   ex>>

\* Lines 169-172: the select takes the timer's value and the caller goes to
\* send the interrupt on the unbuffered channel, where it waits for the
\* engine's poll.
CallerTimer(p) ==
    /\ pc[p] = "eval"
    /\ ev[p].caller = "select"
    /\ ev[p].timer = "fired"
    /\ ev' = [ev EXCEPT ![p] = [@ EXCEPT !.caller = "sendInt",
                                         !.timer = "read",
                                         !.ints = @ + 1]]
    /\ UNCHANGED <<pc, req, resp1, areq, resp, idx, result, nUp, nPipe, jar,
                   mu, stable, calls, clock, ts,
                   ex>>

(***************************************************************************)
(* buildAnswerRequest after the evaluation (roundtripper.go:100-131).      *)
(***************************************************************************)
\* fmt.Sprintf("%.10f", num) for a natural number.
Format10f(n) ==
    Itoa(n) \o <<".">> \o [k \in 1..10 |-> "0"]

\* A parameter that is set in any case, empty when the pattern did not match.
ParamAlways(key, body, m) ==
    << <<key, IF m.ok THEN Slice(body, m.g1, m.g2) ELSE <<>> >> >>

\* The value of a hidden field when its pattern matched, as the one
\* parameter of that name; no parameter otherwise (lines 109-114).
Param(key, body, m) ==
    IF m.ok THEN << <<key, Slice(body, m.g1, m.g2)>> >> ELSE <<>>

\* Lines 109-114 for each body of the model: the parameters of the hidden
\* fields that the patterns find in it.
FieldParams ==
    [b \in Bodies |->
        Param("jschl_vc", BodyText(b), jschlRE(BodyText(b)))
            \o Param("pass", BodyText(b), passRE(BodyText(b)))]

\* url.Values of lines 108-115 for the body b, in the order Encode writes
\* them (by key).
Params(b, answer) ==
    << <<"jschl_answer", answer>> >> \o FieldParams[b]

\* An answer request that takes its cookies from the jar when it is built.
BuildAnswerReadsJar(r1, rq, num) ==
    [method |-> "GET",
     url |-> [rq.url EXCEPT !.path = ChkPath,
                            !.query = Params(r1.body, Format10f(num))],
     ua |-> rq.ua,
     cookies |-> JarCookies(jar, [rq.url EXCEPT !.path = ChkPath]),
     referer |-> <<rq.url>>]

\* An answer request whose Referer is added to those of the first request.
BuildAnswerAddsReferer(r1, rq, num) ==
    [method |-> "GET",
     url |-> [rq.url EXCEPT !.path = ChkPath,
                            !.query = Params(r1.body, Format10f(num))],
     ua |-> rq.ua,
     cookies |-> rq.cookies,
     referer |-> rq.referer \o <<rq.url>>]

\* Lines 104-131: the answer request for the challenge r1 that answered rq.
BuildAnswer(r1, rq, num) ==
    [method |-> "GET",
     url |-> [rq.url EXCEPT !.path = ChkPath,
                            !.query = Params(r1.body, Format10f(num))],
     ua |-> rq.ua,
     cookies |-> rq.cookies,
     referer |-> <<rq.url>>]

\* A RoundTrip that hands the answer to the transport without the delay.
CallerRecvNoDelay(p) ==
    /\ pc[p] = "eval"
    /\ ev[p].caller = "select"
    /\ ev[p].worker = "send"
    /\ ev' = [ev EXCEPT ![p] = EvReturned(@)]
    /\ IF ev[p].err # ""
       THEN Finish(p, MkResult(NoResp, ev[p].err)) /\ UNCHANGED areq
       ELSE /\ areq' = [areq EXCEPT ![p] = BuildAnswer(resp1[p], req[p], ev[p].num)]
            /\ pc' = [pc EXCEPT ![p] = "send2"]
            /\ UNCHANGED result
    /\ UNCHANGED <<req, resp1, resp, idx, nUp, nPipe, jar, mu, stable, calls, clock, ts,
                   ex>>

\* Lines 173-179 and 100-103, 104-131, 69-74: the select receives the
\* worker's outcome and evaluateJS returns it; buildAnswerRequest returns
\* the error, or the answer request, and RoundTrip then starts its sleep.
CallerRecv(p) ==
    /\ pc[p] = "eval"
    /\ ev[p].caller = "select"
    /\ ev[p].worker = "send"
    /\ ev' = [ev EXCEPT ![p] = EvReturned(@)]
    /\ IF ev[p].err # ""
       THEN Finish(p, MkResult(NoResp, ev[p].err)) /\ UNCHANGED areq
       ELSE /\ areq' = [areq EXCEPT ![p] = BuildAnswer(resp1[p], req[p], ev[p].num)]
            /\ pc' = [pc EXCEPT ![p] = "sleep"]
            /\ UNCHANGED result
    /\ UNCHANGED <<req, resp1, resp, idx, nUp, nPipe, jar, mu, stable, calls, clock, ts,
                   ex>>

\* time.Sleep(5 * time.Second) returns (roundtripper.go:74).
Sleep(p) ==
    /\ pc[p] = "sleep"
    /\ pc' = [pc EXCEPT ![p] = "send2"]
    /\ UNCHANGED <<req, resp1, areq, resp, idx, ev, result, nUp, nPipe, jar,
                   mu, stable, calls, clock, ts,
                   ex>>

\* roundtripper.go:80: the cookies of the response are saved.
ShouldSave(r) == Len(r.cookies) > 0

\* A RoundTrip that treats the answer's response like the first response
\* and solves a challenge in it again.
Round2Again(p) ==
    /\ pc[p] = "send2"
    /\ nUp' = [nUp EXCEPT ![p] = nUp[p] + 1]
    /\ \E r \in Responses :
         /\ IsChallenge(r)
         /\ AfterFirst(r, req[p].url.host) = "evaluate"
         /\ resp1' = [resp1 EXCEPT ![p] = r]
         /\ nPipe' = [nPipe EXCEPT ![p] = nPipe[p] + 1]
         /\ pc' = [pc EXCEPT ![p] = "eval"]
         /\ ev' = [ev EXCEPT ![p] = EvStart]
    /\ UNCHANGED <<req, areq, resp, idx, result, jar, mu, stable, calls, clock, ts,
                   ex>>

\* Lines 75-84: the second upstream round trip; its response is returned,
\* after its cookies, if any, are stored.  Jar.SetCookies (line 81) reads
\* time.Now() when it is called, before it waits for the jar's mutex.
Round2(p) ==
    /\ pc[p] = "send2"
    /\ nUp' = [nUp EXCEPT ![p] = nUp[p] + 1]
    /\ \/ /\ Finish(p, MkResult(NoResp, ErrTransport))
          /\ UNCHANGED <<resp, clock, ts>>
       \/ \E r \in Responses :
            /\ resp' = [resp EXCEPT ![p] = r]
            /\ IF ShouldSave(r)
               THEN /\ pc' = [pc EXCEPT ![p] = "save"]
                    /\ clock' = clock + 1
                    /\ ts' = [ts EXCEPT ![p] = clock + 1]
                    /\ UNCHANGED result
               ELSE Finish(p, MkResult(r, "")) /\ UNCHANGED <<clock, ts>>
    /\ UNCHANGED <<req, resp1, areq, idx, ev, nPipe, jar, mu, stable, calls, ex>>

\* The URL the cookies are stored for: resp.Request.URL, the URL of the
\* answer request (roundtripper.go:81).
SaveURL(p) == areq[p].url

\* Line 81, Jar.SetCookies: the mutex is taken, each cookie is stored in
\* turn, the mutex is released, and RoundTrip returns the response.
SetCookiesStep(p) ==
    /\ pc[p] = "save"
    /\ idx[p] > 0 \/ JarFree
    /\ jar' = SetOne(jar, SaveURL(p), resp[p].cookies[idx[p] + 1], ts[p])
    /\ IF idx[p] + 1 = Len(resp[p].cookies)
       THEN /\ mu' = NoProc
            /\ stable' = jar'
            /\ idx' = [idx EXCEPT ![p] = 0]
            /\ Finish(p, MkResult(resp[p], ""))
       ELSE /\ mu' = p
            /\ idx' = [idx EXCEPT ![p] = idx[p] + 1]
            /\ UNCHANGED <<stable, pc, result>>
    /\ UNCHANGED <<req, resp1, areq, resp, ev, nUp, nPipe, calls, clock, ts,
                   ex>>

\* The caller has the result; the request object stays with the caller.
Return(p) ==
    /\ pc[p] = "done"
    /\ pc' = [pc EXCEPT ![p] = "idle"]
    /\ resp1' = [resp1 EXCEPT ![p] = NoResp]
    /\ areq' = [areq EXCEPT ![p] = NoReq]
    /\ resp' = [resp EXCEPT ![p] = NoResp]
    /\ ev' = [ev EXCEPT ![p] = EvIdle]
    /\ result' = [result EXCEPT ![p] = NoResult]
    /\ nUp' = [nUp EXCEPT ![p] = 0]
    /\ nPipe' = [nPipe EXCEPT ![p] = 0]
    /\ ts' = [ts EXCEPT ![p] = 0]
    /\ UNCHANGED <<req, idx, jar, mu, stable, calls, clock, ex>>

Next ==
    \E p \in Procs :
        \/ Begin(p)
        \/ Round1(p)
        \/ WorkerStart(p)
        \/ WorkerPoll(p)
        \/ WorkerExec(p)
        \/ TimerFire(p)
        \/ CallerTimer(p)
        \/ CallerRecv(p)
        \/ Sleep(p)
        \/ Round2(p)
        \/ SetCookiesStep(p)
        \/ Return(p)

Spec == Init /\ [][Next]_vars

ExHead ==
    <<"s","e","t","T","i","m","e","o","u","t","(","f","u","n","c","t","i","o",
      "n","(",")","{","\n"," "," ","v","a","r"," ","s",",","t",",","o",",",
      "p",",","b",",","r",",","e",",","a",",","k",",","i",",","n",",","g",",",
      "f",";","\n">>
ExMid ==
    <<" ","a",".","v","a","l","u","e"," ","=">>
ExTail ==
    <<"\n","}",","," ","4","0","0","0",")",";","\n">>
ExChunks ==
    << <<" ","x">>,
       <<" ","+"," ","t",".","l","e","n","g","t","h">>,
       <<"t",".","l","e">>,
       <<"n","g","t","h">>,
       <<"'">>,
       <<"\\">>,
       <<"\"">>,
       <<"\n"," "," "," ","k"," ","="," ","2">> >>

\* The domains whose length extractJS writes into the script.
ExHosts == {"example.com", "cf.io"}

\* The sequences of at most n chunk numbers.
ChunkSeqs(n) ==
    UNION {[1..m -> 1..Len(ExChunks)] : m \in 0..n}

\* The chunks numbered cs[a..b], joined.
RECURSIVE Cat(_, _, _)
Cat(cs, a, b) ==
    IF b < a THEN <<>> ELSE ExChunks[cs[a]] \o Cat(cs, a + 1, b)

\* A page: the declaration line, k chunks, the assignment, the other
\* chunks, the end of the block.
ExBody(cs, k) ==
    ExHead \o Cat(cs, 1, k) \o ExMid \o Cat(cs, k + 1, Len(cs)) \o ExTail

\* A run of extractJS before it starts, on the page of cs and k for host h.
ExInput(cs, k, h) ==
    [phase |-> "in", body |-> ExBody(cs, k), host |-> h,
     pre |-> <<>>, js |-> <<>>, err |-> ""]

ExInit ==
    /\ InitCalls
    /\ \E cs \in ChunkSeqs(MaxChunks) :
          \E k \in 0..Len(cs) :
              \E h \in ExHosts : ex = ExInput(cs, k, h)

\* extractJS is applied to the input; pre keeps the text line 143 produced.
ExtractStep ==
    /\ ex.phase = "in"
    /\ LET out == extractJS(ex.body, ex.host)
       IN  ex' = [ex EXCEPT
                    !.phase = "out",
                    !.pre = IF out.err = "" THEN PreStrip(ex.body, ex.host)
                            ELSE <<>>,
                    !.js = out.js,
                    !.err = out.err]
    /\ UNCHANGED <<pc, req, resp1, areq, resp, idx, ev, result, nUp, nPipe,
                   jar, mu, stable, calls, clock, ts>>

SpecExtract == ExInit /\ [][ExtractStep]_vars

(***************************************************************************)
(* evaluateJS on its own: every caller stands at the entry of evaluateJS   *)
(* for a challenge page it has just received, a state Spec reaches.  The   *)
(* Go scheduler runs every goroutine that can take a step, and the timer   *)
(* fires when its 5 seconds are over: the worker, the timer and the        *)
(* caller's select loop are each weakly fair.                              *)
(***************************************************************************)
EvalRequest ==
    WithUserAgent(MkRequest(MkURL("example.com", <<>>, <<>>), "", <<>>, <<>>))

EvalChallenge ==
    MkResponse(503, SrvCloudflareNginx, "full", <<>>)

InitEval ==
    /\ pc = [p \in Procs |-> "eval"]
    /\ req = [p \in Procs |-> EvalRequest]
    /\ resp1 = [p \in Procs |-> EvalChallenge]
    /\ areq = [p \in Procs |-> NoReq]
    /\ resp = [p \in Procs |-> NoResp]
    /\ idx = [p \in Procs |-> 0]
    /\ ev = [p \in Procs |-> EvStart]
    /\ result = [p \in Procs |-> NoResult]
    /\ nUp = [p \in Procs |-> 1]
    /\ nPipe = [p \in Procs |-> 1]
    /\ jar = <<>>
    /\ mu = NoProc
    /\ stable = <<>>
    /\ calls = Cardinality(Procs)
    /\ clock = 0
    /\ ts = [p \in Procs |-> 0]
    /\ ex = ExOff

NextEval ==
    \E p \in Procs :
        \/ WorkerStart(p)
        \/ WorkerPoll(p)
        \/ WorkerExec(p)
        \/ TimerFire(p)
        \/ CallerTimer(p)
        \/ CallerRecv(p)

FairEval ==
    \A p \in Procs :
        /\ WF_vars(WorkerStart(p) \/ WorkerPoll(p) \/ WorkerExec(p))
        /\ WF_vars(TimerFire(p))
        /\ WF_vars(CallerTimer(p) \/ CallerRecv(p))

SpecEval == InitEval /\ [][NextEval]_vars /\ FairEval

\* C6: a script that never ends but keeps reaching statement boundaries is
\* interrupted: its evaluation eventually returns, with the timeout error.
C6_LoopTimesOut ==
    \A p \in Procs :
        (pc[p] = "eval" /\ ev[p].kind = "loop")
            ~> (pc[p] = "done" /\ result[p].err = ErrTimeout
                                /\ result[p].resp = NoResp)

\* C6 witness: the evaluation of an endless script has returned the timeout.
C6_Witness ==
    \E p \in Procs :
        /\ pc[p] = "done"
        /\ ev[p].kind = "loop"
        /\ ev[p].caller = "returned"
        /\ result[p].err = ErrTimeout

(***************************************************************************)
(* Properties of RoundTrip.                                                *)
(***************************************************************************)
\* The elements of a sequence.
Range(s) == {s[k] : k \in 1..Len(s)}

\* The Server header of r begins with the ten characters of "cloudflare".
StartsCloudflare(r) ==
    /\ Len(r.server) >= 10
    /\ SubSeq(r.server, 1, 10) = <<"c","l","o","u","d","f","l","a","r","e">>

\* r is a response with status 503 and a cloudflare-prefixed Server header.
Signed(r) == r.status = 503 /\ StartsCloudflare(r)

\* C1: a call whose first response is not 503, or is 503 without a Server
\* header that begins with "cloudflare", returns that very response with no
\* error, after one upstream round trip and no run of the pipeline.
C1_PassThrough ==
    \A p \in Procs :
        (pc[p] = "done" /\ resp1[p] # NoResp /\ ~Signed(resp1[p]))
            => /\ result[p] = MkResult(resp1[p], "")
               /\ nUp[p] = 1
               /\ nPipe[p] = 0

\* C1 witness: a 503 whose Server header has "cloudflare" but not at its
\* start was returned as it came.
C1_Witness ==
    \E p \in Procs :
        /\ pc[p] = "done"
        /\ resp1[p].status = 503
        /\ resp1[p].server = SrvBehindCloudflare
        /\ result[p].resp = resp1[p]
        /\ nUp[p] = 1

\* C2: a call makes at most two upstream round trips and runs the pipeline
\* at most once; a second response that is a challenge itself is returned.
C2_AtMostTwo ==
    \A p \in Procs :
        /\ nUp[p] <= 2
        /\ nPipe[p] <= 1
        /\ (pc[p] = "done" /\ nUp[p] = 2 /\ resp[p] # NoResp)
              => result[p] = MkResult(resp[p], "")

\* C2 witness: the answer was answered with a challenge, and the call ended
\* with it after two round trips and one run of the pipeline.
C2_Witness ==
    \E p \in Procs :
        /\ pc[p] = "done"
        /\ Signed(resp[p])
        /\ result[p].resp = resp[p]
        /\ nUp[p] = 2
        /\ nPipe[p] = 1

\* The readable pages of the model that have no script block: jsRE does not
\* match them.
PagesWithoutScript ==
    {b \in Bodies : BodyReadable(b) /\ ~JsREFind(BodyText(b), 1).ok}

\* The script block is missing from the challenge page of p's call.
ExtractionFailed(p) ==
    /\ Signed(resp1[p])
    /\ resp1[p].body \in PagesWithoutScript

\* evaluateJS of p's call returned an error: the timeout, or the error of a
\* script that does not run or gives no number.
EvaluationFailed(p) ==
    ev[p].caller = "returned" /\ ev[p].err # ""

\* The answer of p's call was sent and the transport returned an error.
AnswerFailed(p) ==
    nUp[p] = 2 /\ resp[p] = NoResp

\* C4: a call whose extraction, evaluation or answer round trip failed ends
\* with that step's error and no response; after a failed extraction or
\* evaluation it has made one upstream round trip only.
C4_ErrorsSurface ==
    \A p \in Procs :
        pc[p] = "done" =>
            /\ ExtractionFailed(p)
                  => result[p] = MkResult(NoResp, ErrNotFound) /\ nUp[p] = 1
            /\ EvaluationFailed(p)
                  => /\ result[p] = MkResult(NoResp, ev[p].err)
                     /\ ev[p].err \in {ErrTimeout, ErrMalformed}
                     /\ nUp[p] = 1
            /\ AnswerFailed(p)
                  => result[p] = MkResult(NoResp, ErrTransport)

\* C4 witness: a call ended on a page without the script block, another on
\* a timeout of the evaluation.
C4_Witness ==
    /\ \E p \in Procs : pc[p] = "done" /\ ExtractionFailed(p)
    /\ \E p \in Procs : pc[p] = "done" /\ EvaluationFailed(p)
                          /\ ev[p].err = ErrTimeout

\* C5: a step changes the jar only for a call that saw a challenge, sent
\* its answer and received a response with cookies to it.
C5_JarChangesOnAnswer ==
    [][jar' # jar =>
          \E p \in Procs :
              /\ pc[p] = "save"
              /\ Signed(resp1[p])
              /\ nUp[p] = 2
              /\ resp[p] # NoResp
              /\ Len(resp[p].cookies) > 0]_vars

\* C5 witness: a pass-through call returned a response with cookies, and the
\* jar is empty.
C5_Witness ==
    \E p \in Procs :
        /\ pc[p] = "done"
        /\ ~Signed(resp1[p])
        /\ Len(result[p].resp.cookies) > 0
        /\ jar = <<>>

\* The hidden fields of the challenge pages of the model, as they are
\* written in the pages.
FieldsOf(b) ==
    IF b = "full"
    THEN << <<"jschl_vc", <<"a","b","1">> >>,
            <<"pass", <<"1","5","-","x","/","y">> >> >>
    ELSE <<>>

\* The pages of the model with the setTimeout block and its a.value line.
PagesWithScript ==
    {b \in Bodies : /\ IndexFrom(BodyText(b), 1, LitSetTimeout) # 0
                    /\ IndexFrom(BodyText(b), 1, LitAValueEq) # 0}

\* C8: an answer request exists only for a response with status 503, a
\* cloudflare-prefixed Server header and the script block in its body; its
\* jschl_vc and pass parameters are the values of the hidden fields of that
\* body, and a field the body lacks gives no parameter.
C8_AnswerFromChallenge ==
    \A p \in Procs :
        (areq[p] # NoReq \/ nUp[p] = 2) =>
            /\ Signed(resp1[p])
            /\ resp1[p].body \in PagesWithScript
            /\ Len(areq[p].url.query) >= 1
            /\ areq[p].url.query[1][1] = "jschl_answer"
            /\ Tail(areq[p].url.query) = FieldsOf(resp1[p].body)

\* C8 witness: an answer was sent for a page without hidden fields, another
\* for a page with both.
C8_Witness ==
    /\ \E p \in Procs : nUp[p] = 2 /\ resp1[p].body = "bare"
    /\ \E p \in Procs : nUp[p] = 2 /\ resp1[p].body = "full"

(***************************************************************************)
(* Properties of the cookie jar as RoundTrip uses it.                      *)
(***************************************************************************)
\* The step in which p's call reads the jar and hands the request on.
BeginStep(p) == pc[p] = "idle" /\ pc'[p] = "send1"

\* The step in which p's call ends its Jar.SetCookies.
SavedStep(p) == pc[p] = "save" /\ pc'[p] = "done"

\* q's call has stored the cookies of the response to its answer.
HasSaved(q) ==
    pc[q] = "done" /\ nUp[q] = 2 /\ resp[q] # NoResp

\* The path a cookie c of an answer's response is stored under: its Path
\* attribute or, without one, the directory of /cdn-cgi/l/chk_jschl.
StoredPath(c) ==
    IF c.path = <<>> THEN <<"cdn-cgi", "l">> ELSE c.path[1]

\* The cookie of the jar entry a cookie c stored for the URL u makes.
StoredAs(u, c) ==
    [host |-> u.host, path |-> StoredPath(c), name |-> c.name,
     value |-> c.value]

\* The cookie of the jar entry e: the entry without its Creation.
CookieOf(e) ==
    [host |-> e.host, path |-> e.path, name |-> e.name, value |-> e.value]

\* The cookies of the entries of the jar j.
CookiesIn(j) == {CookieOf(j[k]) : k \in 1..Len(j)}

\* a is a prefix of b.
IsPrefix(a, b) ==
    Len(a) <= Len(b) /\ \A k \in 1..Len(a) : a[k] = b[k]

\* C3 as stated: a call that begins after q's call has stored the cookies of
\* its answer's response, for a request to the same host, sends each of
\* these cookies, whatever the path of the request.
C3_SentOnAnyPath ==
    [][\A p, q \in Procs :
          (BeginStep(p) /\ HasSaved(q)
                /\ req'[p].url.host = areq[q].url.host)
            => \A k \in 1..Len(resp[q].cookies) :
                  resp[q].cookies[k].maxAge >= 0
                    => <<resp[q].cookies[k].name, resp[q].cookies[k].value>>
                          \in Range(req'[p].cookies)]_vars

\* C3 amended: such a call sends each of these cookies that is still in the
\* jar and whose stored path is a prefix of the path of the request.
C3_SentOnMatchingPath ==
    [][\A p, q \in Procs :
          (BeginStep(p) /\ HasSaved(q)
                /\ req'[p].url.host = areq[q].url.host)
            => \A k \in 1..Len(resp[q].cookies) :
                  LET c == resp[q].cookies[k]
                  IN  (/\ c.maxAge >= 0
                       /\ StoredAs(areq[q].url, c) \in CookiesIn(jar)
                       /\ IsPrefix(StoredPath(c), req'[p].url.path))
                        => <<c.name, c.value>> \in Range(req'[p].cookies)]_vars

\* C3 witness: a cookie that came without a Path attribute was stored, and
\* a request below /cdn-cgi/l to the same host has it.
C3_Witness ==
    \E p, q \in Procs :
        /\ HasSaved(q)
        /\ \E k \in 1..Len(resp[q].cookies) :
              resp[q].cookies[k] = MkCookie("b", "1", NoPathAttr, 0)
        /\ pc[p] = "send1"
        /\ req[p].url.host = areq[q].url.host
        /\ req[p].url.path = <<"cdn-cgi", "l", "x">>
        /\ <<"b", "1">> \in Range(req[p].cookies)

\* The per-call state of q is left as it is.
CallUnchanged(q) ==
    /\ pc'[q] = pc[q]
    /\ req'[q] = req[q]
    /\ resp1'[q] = resp1[q]
    /\ areq'[q] = areq[q]
    /\ resp'[q] = resp[q]
    /\ idx'[q] = idx[q]
    /\ ev'[q] = ev[q]
    /\ result'[q] = result[q]
    /\ nUp'[q] = nUp[q]
    /\ nPipe'[q] = nPipe[q]

\* C7: a step of one call leaves the state of every other call alone; a
\* call changes the jar only while no other call is inside SetCookies; and
\* the cookies a lookup adds to a request are those of the jar as the last
\* completed SetCookies left it.
C7_JarAtomic ==
    [][/\ \E p \in Procs : \A q \in Procs \ {p} : CallUnchanged(q)
       /\ \A p \in Procs :
             (jar' # jar /\ pc[p] = "save" /\ ~CallUnchanged(p))
                => \A q \in Procs \ {p} : idx[q] = 0
       /\ \A p \in Procs :
             BeginStep(p) =>
                LET cs == req'[p].cookies
                    js == JarCookies(stable, req'[p].url)
                IN  /\ Len(js) <= Len(cs)
                    /\ SubSeq(cs, Len(cs) - Len(js) + 1, Len(cs)) = js]_vars

\* C7 witness: one call is inside SetCookies with one cookie of two stored,
\* while another call waits to read the jar for a request to the same host.
C7_Witness ==
    \E p, q \in Procs :
        /\ pc[p] = "save"
        /\ idx[p] = 1
        /\ mu = p
        /\ jar # stable
        /\ pc[q] = "idle"
        /\ calls < MaxCalls

\* The identity of the jar entry e.
IdOf(e) == <<e.host, e.path, e.name>>

\* The entries of the jar j, as pairs of name and value, kept for host h.
CachedFor(j, h) ==
    {<<j[k].name, j[k].value>> : k \in {i \in 1..Len(j) : j[i].host = h}}

\* C10 as stated: when a call has stored the cookies of its answer's
\* response, the cookies cached for the host are those of that response.
C10_OnlyLastResponse ==
    [][\A p \in Procs :
          SavedStep(p) =>
              CachedFor(jar', areq[p].url.host)
                 = {<<resp[p].cookies[k].name, resp[p].cookies[k].value>> :
                       k \in {i \in 1..Len(resp[p].cookies) :
                                 resp[p].cookies[i].maxAge >= 0}}]_vars

\* C10 amended: the jar then has, for each host, path and name of a cookie
\* of the response, the last such cookie as its one entry (no entry when
\* that cookie has Max-Age < 0); the entries it had for other hosts, paths
\* or names are kept, and it has no other entry.
C10_MergedByName ==
    [][\A p \in Procs :
          SavedStep(p) =>
            LET u  == areq[p].url
                cs == resp[p].cookies
                IsLast(k) ==
                    \A m \in (k + 1)..Len(cs) :
                        IdOf(StoredAs(u, cs[m])) # IdOf(StoredAs(u, cs[k]))
                New == {StoredAs(u, cs[k]) : k \in 1..Len(cs)}
            IN  /\ \A k \in 1..Len(cs) :
                      IsLast(k) =>
                        LET e == StoredAs(u, cs[k])
                            at == {i \in 1..Len(jar') : IdOf(jar'[i]) = IdOf(e)}
                        IN  IF cs[k].maxAge < 0 THEN at = {}
                            ELSE Cardinality(at) = 1
                                    /\ \A i \in at : CookieOf(jar'[i]) = e
                /\ \A e \in Range(stable) :
                      (\A n \in New : IdOf(n) # IdOf(e)) => e \in Range(jar')
                /\ \A e \in Range(jar') :
                      e \in Range(stable) \/ CookieOf(e) \in New]_vars

\* C10 witness: a call has stored the cookies of its answer's response, and
\* the jar still has, for the same host, a cookie of a name that response
\* did not carry.
C10_Witness ==
    \E p \in Procs :
        /\ HasSaved(p)
        /\ Len(resp[p].cookies) > 0
        /\ mu = NoProc
        /\ \E e \in Range(jar) :
              /\ e.host = areq[p].url.host
              /\ \A k \in 1..Len(resp[p].cookies) :
                    resp[p].cookies[k].name # e.name

(***************************************************************************)
(* Properties of extractJS.                                                *)
(***************************************************************************)
\* The text s has the placeholder t.length in it.
HasTLength(s) ==
    \E k \in 1..Len(s) : At(s, k, LitTLength)

\* C9 as stated: the script extractJS returns has no newline, no backslash,
\* no quote of either kind and no t.length in it.
C9_NoQuoteNoPlaceholder ==
    (ex.phase = "out" /\ ex.err = "") =>
        /\ \A k \in 1..Len(ex.js) : ex.js[k] \notin {"\n", "\\", "'", "\""}
        /\ ~HasTLength(ex.js)

\* C9 amended: the script extractJS returns has no newline, no backslash and
\* no single quote in it; the text the substitution of line 143 leaves has
\* no t.length in it, and the script has one only where line 146 took a
\* newline, a backslash or a single quote out of that text.
C9_StrippedAndReplaced ==
    (ex.phase = "out" /\ ex.err = "") =>
        /\ \A k \in 1..Len(ex.js) : ex.js[k] \notin {"\n", "\\", "'"}
        /\ ~HasTLength(ex.pre)
        /\ HasTLength(ex.js)
              => \E k \in 1..Len(ex.pre) : ex.pre[k] \in {"\n", "\\", "'"}

\* C9 witness: a page with two placeholders and a single quote gave a script
\* with the length of the host twice and none of the two.
C9_Witness ==
    /\ ex.phase = "out"
    /\ ex.err = ""
    /\ ex.host = "example.com"
    /\ \E i, j \in 1..Len(ex.body) :
          i < j /\ At(ex.body, i, LitTLength) /\ At(ex.body, j, LitTLength)
    /\ \E k \in 1..Len(ex.body) : ex.body[k] = "'"
    /\ \E i, j \in 1..Len(ex.js) :
          i + 1 < j /\ At(ex.js, i, <<"1", "1">>) /\ At(ex.js, j, <<"1", "1">>)
    /\ ~HasTLength(ex.js)
    /\ \A k \in 1..Len(ex.js) : ex.js[k] # "'"

(***************************************************************************)
(* Properties of the requests RoundTrip sends.                             *)
(***************************************************************************)
\* The request for the URL u as the caller builds it.
Given(u) == CHOOSE r \in NewRequests : r.url = u

\* C11: the request of a call has the default User-Agent when the caller
\* gave none and the caller's User-Agent otherwise, and the answer request
\* has the User-Agent of the request.
C11_UserAgentKept ==
    \A p \in Procs :
        pc[p] # "idle" =>
            /\ Given(req[p].url).ua = "" => req[p].ua = UserAgent
            /\ Given(req[p].url).ua # "" => req[p].ua = Given(req[p].url).ua
            /\ areq[p] # NoReq => areq[p].ua = req[p].ua

\* C11 witness: an answer was sent with the User-Agent the caller gave, and
\* another with the default one.
C11_Witness ==
    /\ \E p \in Procs : nUp[p] = 2 /\ areq[p].ua = "curl/8"
    /\ \E p \in Procs : nUp[p] = 2 /\ areq[p].ua = UserAgent

(***************************************************************************)
(* Properties of evaluateJS and its worker.                                *)
(***************************************************************************)
\* C12: in no reachable state does the caller of evaluateJS wait at the send
\* on the interrupt channel while the worker waits at the send on the result
\* channel.
C12_NeverBothSending ==
    \A p \in Procs : ~(ev[p].caller = "sendInt" /\ ev[p].worker = "send")

\* The interrupt of this evaluateJS was received by the worker.
Delivered(e) == e.ints > 0 /\ e.caller # "sendInt"

\* The worker of this evaluateJS has an outcome, sent or about to be.
HasOutcome(e) == e.worker \in {"send", "done"}

\* What every evaluateJS in progress or returned has done so far.
CountsAndOutcome ==
    \A p \in Procs :
        ev[p].caller # "-" =>
            /\ ev[p].workers = 1
            /\ ev[p].ints <= 1
            /\ ev[p].outs <= 1
            /\ ev[p].caller = "returned" <=> ev[p].outs = 1
            /\ HasOutcome(ev[p]) =>
                   (ev[p].err = ErrTimeout <=> Delivered(ev[p]))
            /\ ev[p].caller = "returned" /\ Delivered(ev[p]) =>
                   /\ result[p] = MkResult(NoResp, ErrTimeout)
                   /\ areq[p] = NoReq

\* evaluateJS returns in this step.
ReturnsStep(p) == ev[p].caller = "select" /\ ev'[p].caller = "returned"

\* C13 as stated: one worker, at most one interrupt, one outcome, the
\* timeout error exactly when the interrupt was delivered, and no return
\* with a nil error once the timer has fired.
C13_NoNilAfterTimer ==
    /\ []CountsAndOutcome
    /\ [][\A p \in Procs :
            ReturnsStep(p) /\ ev[p].timer # "armed" => ev'[p].err # ""]_vars

\* C13 amended: every evaluateJS has one worker, begins at most one send of
\* the interrupt, receives at most one outcome and has received one when it
\* has returned; the outcome is the timeout error exactly when the interrupt
\* was delivered, and then RoundTrip returns that error and builds no answer
\* request.
C13_OneOutcome ==
    /\ []CountsAndOutcome
    /\ [][\A p \in Procs :
            ReturnsStep(p) /\ Delivered(ev[p]) => ev'[p].err = ErrTimeout]_vars

\* C13 witness: an evaluateJS returned the timeout error after its interrupt
\* was delivered.
C13_Witness ==
    \E p \in Procs :
        /\ ev[p].caller = "returned" /\ ev[p].ints = 1 /\ ev[p].outs = 1
        /\ result[p].err = ErrTimeout

(***************************************************************************)
(* The order of the steps of one RoundTrip call.                           *)
(***************************************************************************)
\* The call of p comes to the stage s in this step.
Enters(p, s) == pc[p] # s /\ pc'[p] = s

\* extractJS found the script in the challenge page of p's call.
Extracted(p) ==
    /\ IsChallenge(resp1[p])
    /\ ExtractedJS[resp1[p].body][req[p].url.host].err = ""

\* The stages of p's call that follow a built answer request.
AfterAnswerBuilt(p) == pc[p] \in {"sleep", "send2", "save"}

\* C14: on the challenge path the evaluation starts with the first round
\* trip's challenge extracted, the answer request is built when the
\* evaluation has returned a number and the delay starts then, the second
\* round trip starts only when the delay has ended and is the only step
\* after which cookies are stored; no delay starts, and no answer is sent,
\* after a failed extraction or evaluation.
C14_StepsInOrder ==
    /\ [](\A p \in Procs :
            /\ AfterAnswerBuilt(p) =>
                   /\ Extracted(p)
                   /\ ev[p].caller = "returned" /\ ev[p].err = ""
                   /\ areq[p] # NoReq
            /\ pc[p] = "sleep" => nUp[p] = 1
            /\ pc[p] = "save" => nUp[p] = 2 /\ resp[p] # NoResp
            /\ ExtractionFailed(p) \/ EvaluationFailed(p) =>
                   ~AfterAnswerBuilt(p) /\ nUp[p] = 1 /\ areq[p] = NoReq)
    /\ [][\A p \in Procs :
            /\ Enters(p, "eval") =>
                   pc[p] = "send1" /\ nUp'[p] = 1 /\ areq'[p] = NoReq
            /\ Enters(p, "sleep") => pc[p] = "eval" /\ areq[p] = NoReq
            /\ Enters(p, "send2") => pc[p] = "sleep"
            /\ nUp'[p] = 2 /\ nUp[p] # 2 => pc[p] = "send2"
            /\ Enters(p, "save") => pc[p] = "send2" /\ nUp[p] = 1
            /\ jar' # jar => \E q \in Procs : pc[q] = "save"]_vars

\* C14 witness: a call went through every step of the challenge path and
\* stored the cookies of the answer's response.
C14_Witness ==
    \E p \in Procs :
        /\ pc[p] = "done" /\ nUp[p] = 2 /\ Extracted(p)
        /\ result[p].err = "" /\ ShouldSave(resp[p]) /\ jar # <<>>

(***************************************************************************)
(* Challenge pages without the hidden fields.                              *)
(***************************************************************************)
\* The pages of the model with the script block and without the hidden
\* field that the text lit opens.
ScriptPagesWithout(lit) ==
    {b \in PagesWithScript : IndexFrom(BodyText(b), 1, lit) = 0}

PagesWithoutJschl == ScriptPagesWithout(LitJschlField)

PagesWithoutPass == ScriptPagesWithout(LitPassField)

\* The values of the query parameters named key.
ValuesOf(query, key) ==
    {query[i][2] : i \in {j \in 1..Len(query) : query[j][1] = key}}

\* The evaluation of p's call has returned a number.
Evaluated(p) == ev[p].caller = "returned" /\ ev[p].err = ""

\* The call of p has built its answer request and not failed before the
\* answer was sent.
BuiltAndSent(p) ==
    /\ areq[p] # NoReq
    /\ pc[p] = "done" => nUp[p] = 2

\* C15 as stated: a challenge page with the script and without the jschl_vc
\* field gives an answer request with an empty jschl_vc parameter, and one
\* without the pass field an answer request without a pass parameter.
C15_EmptyJschl ==
    \A p \in Procs :
        Signed(resp1[p]) /\ Evaluated(p) =>
            /\ resp1[p].body \in PagesWithoutJschl =>
                   /\ BuiltAndSent(p)
                   /\ ValuesOf(areq[p].url.query, "jschl_vc") = {<<>>}
            /\ resp1[p].body \in PagesWithoutPass =>
                   /\ BuiltAndSent(p)
                   /\ ValuesOf(areq[p].url.query, "pass") = {}

\* C15 amended: a challenge page with the script and without the jschl_vc
\* field gives an answer request without a jschl_vc parameter, and one
\* without the pass field an answer request without a pass parameter; in
\* both cases the request is built and the call goes on to send it.
C15_NoParamForMissingField ==
    \A p \in Procs :
        Signed(resp1[p]) /\ Evaluated(p) =>
            /\ resp1[p].body \in PagesWithoutJschl =>
                   /\ BuiltAndSent(p)
                   /\ ValuesOf(areq[p].url.query, "jschl_vc") = {}
            /\ resp1[p].body \in PagesWithoutPass =>
                   /\ BuiltAndSent(p)
                   /\ ValuesOf(areq[p].url.query, "pass") = {}

\* C15 witness: the answer for a page without the jschl_vc field was sent
\* and answered.
C15_Witness ==
    \E p \in Procs :
        /\ resp1[p].body \in PagesWithoutJschl
        /\ nUp[p] = 2 /\ resp[p] # NoResp /\ pc[p] = "done"

(***************************************************************************)
(* The cookies of the requests handed to the transport.                    *)
(***************************************************************************)
\* The first request of p's call is handed to the transport in this step.
SendsFirst(p) == pc[p] = "send1" /\ nUp'[p] = 1

\* The answer request of p's call is handed to the transport in this step.
SendsAnswer(p) == pc[p] = "send2" /\ nUp'[p] = 2

\* The request r carries the cookies the jar holds for its URL now.
CarriesCached(r) == Range(r.cookies) = Range(JarCookies(jar, r.url))

\* C16 as stated: the first request and the answer request each carry, when
\* they are handed to the transport, the cookies the jar holds for their URL
\* at that moment.
C16_FreshOnEverySend ==
    [][\A p \in Procs :
         /\ SendsFirst(p) => CarriesCached(req[p])
         /\ SendsAnswer(p) => CarriesCached(areq[p])]_vars

\* C16 amended: the jar is read once in a call, when the call begins, and
\* the cookies it holds then for the request's URL are added to the request;
\* the answer request carries the cookies of the first request, whatever the
\* jar holds when it is built or sent.
C16_ReadOnceAtBegin ==
    /\ [](\A p \in Procs : areq[p] # NoReq => areq[p].cookies = req[p].cookies)
    /\ [][\A p \in Procs :
            /\ BeginStep(p) =>
                   \E r \in NewRequests \cup {req[p]} :
                       /\ r.url = req'[p].url
                       /\ req'[p].cookies = r.cookies \o JarCookies(jar, r.url)
            /\ ~BeginStep(p) => req'[p] = req[p]]_vars

\* C16 witness: an answer request without cookies is about to be sent
\* while the jar holds cookies for the URL of the call's first request, which
\* another call stored after this call began.
C16_Witness ==
    \E p \in Procs :
        /\ pc[p] = "send2" /\ mu = NoProc
        /\ areq[p].cookies = <<>>
        /\ JarCookies(jar, req[p].url) # <<>>
        /\ ~CarriesCached(areq[p])

\* C17: the answer request of a call is a GET for /cdn-cgi/l/chk_jschl on
\* the scheme and host of the call's first request, has the User-Agent and
\* the cookies of that request as it was sent, and has one Referer, the URL
\* of that request, whatever Referer that request had.
C17_AnswerRequestShape ==
    \A p \in Procs :
        areq[p] # NoReq =>
            /\ IsChallenge(resp1[p])
            /\ areq[p].method = "GET"
            /\ areq[p].url.scheme = req[p].url.scheme
            /\ areq[p].url.host = req[p].url.host
            /\ areq[p].url.path = ChkPath
            /\ areq[p].ua = req[p].ua
            /\ areq[p].cookies = req[p].cookies
            /\ Len(areq[p].referer) = 1
            /\ areq[p].referer[1] = req[p].url

\* C17 witness: an answer request was built for a request that had cookies
\* and a Referer of its own.
C17_Witness ==
    \E p \in Procs :
        /\ areq[p] # NoReq
        /\ req[p].cookies # <<>>
        /\ req[p].referer # <<>> /\ req[p].referer[1] # req[p].url

(***************************************************************************)
(* One caller that hands its request object to RoundTrip again.  The run   *)
(* starts where the caller's first call has solved a challenge and        *)
(* RoundTrip has stored the cookie of the answer's response.               *)
(***************************************************************************)
\* Calls in a run, the first one included.
MaxReuseCalls == 3

ReuseCaller == "p1"

\* The request of the first call as RoundTrip left it: the jar was empty.
ReuseRequest ==
    WithCookies(WithUserAgent(MkRequest(MkURL("example.com", <<>>, <<>>),
                                        "", <<>>, <<>>)),
                JarCookies(<<>>, MkURL("example.com", <<>>, <<>>)))

\* The jar after SetCookies of line 81 for the answer URL of the first call
\* and a response with the cookie a=1 for the path /.
ReuseJar ==
    SetOne(<<>>, BuildAnswer(EvalChallenge, ReuseRequest,
                       ScriptValue[EvalChallenge.body][ReuseRequest.url.host]).url,
           MkCookie("a", "1", RootPathAttr, 0), 1)

InitReuse ==
    /\ pc = [p \in Procs |-> "idle"]
    /\ req = [p \in Procs |-> IF p = ReuseCaller THEN ReuseRequest ELSE NoReq]
    /\ resp1 = [p \in Procs |-> NoResp]
    /\ areq = [p \in Procs |-> NoReq]
    /\ resp = [p \in Procs |-> NoResp]
    /\ idx = [p \in Procs |-> 0]
    /\ ev = [p \in Procs |-> EvIdle]
    /\ result = [p \in Procs |-> NoResult]
    /\ nUp = [p \in Procs |-> 0]
    /\ nPipe = [p \in Procs |-> 0]
    /\ jar = ReuseJar
    /\ mu = NoProc
    /\ stable = ReuseJar
    /\ calls = 1
    /\ clock = 1
    /\ ts = [p \in Procs |-> 0]
    /\ ex = ExOff

NextReuse ==
    \/ BeginUpTo(ReuseCaller, MaxReuseCalls)
    \/ Round1(ReuseCaller)
    \/ WorkerStart(ReuseCaller)
    \/ WorkerPoll(ReuseCaller)
    \/ WorkerExec(ReuseCaller)
    \/ TimerFire(ReuseCaller)
    \/ CallerTimer(ReuseCaller)
    \/ CallerRecv(ReuseCaller)
    \/ Sleep(ReuseCaller)
    \/ Round2(ReuseCaller)
    \/ SetCookiesStep(ReuseCaller)
    \/ Return(ReuseCaller)

SpecReuse == InitReuse /\ [][NextReuse]_vars

\* How often the cookie c stands in the Cookie header of r.
TimesIn(r, c) ==
    Cardinality({k \in 1..Len(r.cookies) : r.cookies[k] = c})

\* C18: the first request of every call, when RoundTrip hands it to the
\* transport, carries each cookie that the jar holds for its URL exactly
\* once, also when the caller handed in the request of its previous call.
C18_EachCookieOnce ==
    \A p \in Procs :
        pc[p] = "send1" =>
            \A c \in Range(JarCookies(jar, req[p].url)) :
                TimesIn(req[p], c) = 1

=============================================================================
